---- MODULE Spec2Model ----
(***************************************************************************)
(* Session / token lifecycle of the TrAi backend: password login, access   *)
(* and refresh JWT issuance, refresh rotation with reuse detection,        *)
(* logout, /auth/me, and the role guard used by the admin and pro routes.  *)
(*                                                                         *)
(* Time is a tick counter; TicksPerSecond ticks make one clock second.     *)
(* A JWT "exp" claim is a whole second (python-jose converts the datetime  *)
(* with timegm), the refresh_token_expires column keeps the sub-second     *)
(* part (datetime.utcnow() + timedelta).                                   *)
(***************************************************************************)
EXTENDS Integers, FiniteSets, Sequences, TLC

\* ---------------------------------------------------------------- bounds
MaxIds == 3            \* rows the users table may ever hold (2 seeded + registrations)
MaxTick == 4           \* the clock stops after this many ticks
TicksPerSecond == 2    \* resolution of datetime.utcnow() below one second
AccessTtl == 1         \* access-token lifetime in model seconds  (stands for 30 minutes)
RefreshTtl == 1        \* refresh-token lifetime in model seconds (stands for 7 days)
MaxIssued == 2         \* distinct refresh-token values issued in one run
MaxReqs == 2           \* requests handled at the same time

\* ------------------------------------------------------- program constants
SECRET_KEY == "SECRET_KEY_FOR_TRAI"
REFRESH_SECRET_KEY == "REFRESH_SECRET_KEY_FOR_TRAI"

RoleEnum == {"user", "pro", "admin"}

Ids == 1..MaxIds
Emails == {"test@example.com", "admin@trai.com", "new@test.com"}
Passwords == {"p1", "p2"}

NoRole == "none"       \* a token without a role claim
NullTime == -1         \* SQL NULL in a DateTime column

\* SQL NULL in the refresh_token column
NullToken == [key |-> "null", sub |-> 0, role |-> NoRole, exp |-> 0]
\* a string that is not a JWT ("invalid.token.here")
Malformed == [key |-> "malformed", sub |-> 0, role |-> NoRole, exp |-> 0]

Sec(t) == t \div TicksPerSecond

VARIABLES
    now,        \* wall clock, in ticks
    users,      \* the users table: id -> row, DOMAIN users = ids of existing rows
    nextId,     \* the serial primary key
    issued,     \* every token the service has handed to a client
    last,       \* the last completed request and its response
    writer,     \* history: id -> the request that last wrote the row's session fields
    rot,        \* history: id -> <<T, T2>>, the row's last successful rotate(T) = T2
    reqs,       \* requests in flight: slot -> position, loaded row and response
    training    \* AI-generation counters of the users rows, and the workouts table

vars == <<now, users, nextId, issued, last, writer, rot, reqs, training>>

\* ------------------------------------------------------- Credential hasher
\* bcrypt digest of a password; the salt is not modelled, the digest names
\* the password it verifies.
hash_password(password) == [valid |-> TRUE, of |-> password]

\* a verify_password that compares the stored string with the plaintext
verify_password_plain(plain_password, hashed_password) ==
    hashed_password.of = plain_password

verify_password(plain_password, hashed_password) ==
    IF ~hashed_password.valid THEN FALSE
    ELSE hashed_password.of = plain_password

\* --------------------------------------------------------------- Token codec
\* jwt.encode: header and HS256 signature are functions of (claims, key), so
\* the token is determined by its claims and the signing key.
create_access_token(sub, role, t) ==
    [key |-> SECRET_KEY, sub |-> sub, role |-> role, exp |-> Sec(t) + AccessTtl]

create_refresh_token(sub, t) ==
    [key |-> REFRESH_SECRET_KEY, sub |-> sub, role |-> NoRole, exp |-> Sec(t) + RefreshTtl]

\* a _refresh_expiry that ends one second before the token's lifetime
refresh_expiry_short(t) == t + (RefreshTtl - 1) * TicksPerSecond

refresh_expiry(t) == t + RefreshTtl * TicksPerSecond

\* a jwt.decode that does not look at exp
jwt_decode_no_exp(token, key, t) ==
    IF token.key # key THEN [ok |-> FALSE, sub |-> 0, role |-> NoRole]
    ELSE [ok |-> TRUE, sub |-> token.sub, role |-> token.role]

\* a jwt.decode for a service that signs both token classes with one key
jwt_decode_one_key(token, key, t) ==
    IF token.key \notin {SECRET_KEY, REFRESH_SECRET_KEY}
    THEN [ok |-> FALSE, sub |-> 0, role |-> NoRole]
    ELSE IF token.exp < Sec(t) THEN [ok |-> FALSE, sub |-> 0, role |-> NoRole]
    ELSE [ok |-> TRUE, sub |-> token.sub, role |-> token.role]

\* jwt.decode(token, key): JWTError on a bad signature, a malformed token or
\* exp < now (whole seconds); otherwise the claims.
jwt_decode(token, key, t) ==
    IF token.key # key THEN [ok |-> FALSE, sub |-> 0, role |-> NoRole]
    ELSE IF token.exp < Sec(t) THEN [ok |-> FALSE, sub |-> 0, role |-> NoRole]
    ELSE [ok |-> TRUE, sub |-> token.sub, role |-> token.role]

\* ------------------------------------------------------------ UserRepository
get_by_id(db, user_id) ==
    IF user_id \in DOMAIN db THEN {user_id} ELSE {}

get_by_email(db, email) ==
    {i \in DOMAIN db : db[i].email = email}

get_by_refresh_token(db, refresh_token) ==
    {i \in DOMAIN db : db[i].refresh_token = refresh_token}

save_refresh_token(db, id, refresh_token, expires) ==
    [db EXCEPT ![id].refresh_token = refresh_token,
               ![id].refresh_token_expires = expires]

\* a revoke that ends the sessions of every row
revoke_every_session(db, id) ==
    [i \in DOMAIN db |->
        [db[i] EXCEPT !.refresh_token = NullToken, !.refresh_token_expires = NullTime]]

revoke_refresh_token(db, id) ==
    [db EXCEPT ![id].refresh_token = NullToken,
               ![id].refresh_token_expires = NullTime]

\* a new row whose role column is left NULL
NewUserNoRole(email, password) ==
    [email |-> email, password |-> hash_password(password), role |-> NoRole,
     refresh_token |-> NullToken, refresh_token_expires |-> NullTime]

NewUser(email, password) ==
    [email |-> email, password |-> hash_password(password), role |-> "user",
     refresh_token |-> NullToken, refresh_token_expires |-> NullTime]

create_user(db, id, row) ==
    [i \in DOMAIN db \cup {id} |-> IF i = id THEN row ELSE db[i]]


\* ------------------------------------------------------------- AuthService
\* AuthService.authenticate_user: the set holding the authenticated id, or {}
authenticate_user(db, email, password) ==
    {i \in get_by_email(db, email) : verify_password(password, db[i].password)}

\* an issue_tokens that puts the column default, not the row's role, into the
\* access token
issue_tokens_default_role(db, id, row, t) ==
    LET access_token == create_access_token(id, "user", t)
        refresh_token == create_refresh_token(id, t)
    IN  [access |-> access_token,
         refresh |-> refresh_token,
         db |-> save_refresh_token(db, id, refresh_token, refresh_expiry(t))]

\* AuthService.issue_tokens for the loaded row `row` of user `id`
issue_tokens(db, id, row, t) ==
    LET access_token == create_access_token(id, row.role, t)
        refresh_token == create_refresh_token(id, t)
    IN  [access |-> access_token,
         refresh |-> refresh_token,
         db |-> save_refresh_token(db, id, refresh_token, refresh_expiry(t))]

Failure(db, why) ==
    [ok |-> FALSE, uid |-> 0, access |-> NullToken, refresh |-> NullToken,
     role |-> NoRole, db |-> db, why |-> why]

\* a rotate that looks the token up before decoding it and revokes the row
\* of a stored token that fails to decode
rotate_lookup_first(db, presented_token, t) ==
    LET payload == jwt_decode(presented_token, REFRESH_SECRET_KEY, t)
        found == get_by_refresh_token(db, presented_token)
    IN  IF found = {} THEN
            IF ~payload.ok THEN Failure(db, "jwt")
            ELSE IF get_by_id(db, payload.sub) # {}
                 THEN Failure(revoke_refresh_token(db, payload.sub), "reuse")
                 ELSE Failure(db, "unknown")
        ELSE
            LET id == CHOOSE i \in found : TRUE
                user == db[id]
            IN  IF ~payload.ok THEN Failure(revoke_refresh_token(db, id), "jwt")
                ELSE IF user.refresh_token_expires = NullTime
                        \/ user.refresh_token_expires < t
                THEN Failure(revoke_refresh_token(db, id), "expired")
                ELSE LET tokens == issue_tokens(db, id, user, t)
                     IN  [ok |-> TRUE, uid |-> id, access |-> tokens.access,
                          refresh |-> tokens.refresh, role |-> user.role,
                          db |-> tokens.db, why |-> "rotated"]

\* a rotate that refuses a row whose stored expiry has passed but leaves the
\* row as it is
rotate_keep_expired(db, presented_token, t) ==
    LET payload == jwt_decode(presented_token, REFRESH_SECRET_KEY, t)
        found == get_by_refresh_token(db, presented_token)
    IN  IF ~payload.ok THEN Failure(db, "jwt")
        ELSE IF found = {} THEN
            LET victim == get_by_id(db, payload.sub)
            IN  IF victim # {}
                THEN Failure(revoke_refresh_token(db, payload.sub), "reuse")
                ELSE Failure(db, "unknown")
        ELSE
            LET id == CHOOSE i \in found : TRUE
                user == db[id]
            IN  IF user.refresh_token_expires = NullTime
                   \/ user.refresh_token_expires < t
                THEN Failure(db, "expired")
                ELSE LET tokens == issue_tokens(db, id, user, t)
                     IN  [ok |-> TRUE, uid |-> id, access |-> tokens.access,
                          refresh |-> tokens.refresh, role |-> user.role,
                          db |-> tokens.db, why |-> "rotated"]

\* a rotate that refuses a token no row stores but revokes nothing
rotate_without_revocation(db, presented_token, t) ==
    LET payload == jwt_decode(presented_token, REFRESH_SECRET_KEY, t)
        found == get_by_refresh_token(db, presented_token)
    IN  IF ~payload.ok THEN Failure(db, "jwt")
        ELSE IF found = {} THEN
            IF get_by_id(db, payload.sub) # {}
            THEN Failure(db, "reuse")
            ELSE Failure(db, "unknown")
        ELSE
            LET id == CHOOSE i \in found : TRUE
                user == db[id]
            IN  IF user.refresh_token_expires = NullTime
                   \/ user.refresh_token_expires < t
                THEN Failure(revoke_refresh_token(db, id), "expired")
                ELSE LET tokens == issue_tokens(db, id, user, t)
                     IN  [ok |-> TRUE, uid |-> id, access |-> tokens.access,
                          refresh |-> tokens.refresh, role |-> user.role,
                          db |-> tokens.db, why |-> "rotated"]

\* AuthService.rotate_refresh_token
rotate_refresh_token(db, presented_token, t) ==
    LET payload == jwt_decode(presented_token, REFRESH_SECRET_KEY, t)
        found == get_by_refresh_token(db, presented_token)
    IN  IF ~payload.ok THEN Failure(db, "jwt")
        ELSE IF found = {} THEN
            LET victim == get_by_id(db, payload.sub)
            IN  IF victim # {}
                THEN Failure(revoke_refresh_token(db, payload.sub), "reuse")
                ELSE Failure(db, "unknown")
        ELSE
            LET id == CHOOSE i \in found : TRUE
                user == db[id]
            IN  IF user.refresh_token_expires = NullTime
                   \/ user.refresh_token_expires < t
                THEN Failure(revoke_refresh_token(db, id), "expired")
                ELSE LET tokens == issue_tokens(db, id, user, t)
                     IN  [ok |-> TRUE, uid |-> id, access |-> tokens.access,
                          refresh |-> tokens.refresh, role |-> user.role,
                          db |-> tokens.db, why |-> "rotated"]

\* the UserRepository calls rotate_refresh_token makes, in order
rotate_repo_calls(db, presented_token, t) ==
    LET payload == jwt_decode(presented_token, REFRESH_SECRET_KEY, t)
        found == get_by_refresh_token(db, presented_token)
    IN  IF ~payload.ok THEN <<>>
        ELSE IF found = {} THEN
            IF get_by_id(db, payload.sub) # {}
            THEN <<"get_by_refresh_token", "get_by_id", "revoke_refresh_token">>
            ELSE <<"get_by_refresh_token", "get_by_id">>
        ELSE
            LET user == db[CHOOSE i \in found : TRUE]
            IN  IF user.refresh_token_expires = NullTime
                   \/ user.refresh_token_expires < t
                THEN <<"get_by_refresh_token", "revoke_refresh_token">>
                ELSE <<"get_by_refresh_token", "save_refresh_token">>

\* a logout_user that looks the row up by token value
logout_user_by_value(db, refresh_token, t) ==
    LET payload == jwt_decode(refresh_token, REFRESH_SECRET_KEY, t)
        found == get_by_refresh_token(db, refresh_token)
    IN  IF ~payload.ok THEN [ok |-> FALSE, uid |-> 0, db |-> db]
        ELSE IF found = {} THEN [ok |-> FALSE, uid |-> 0, db |-> db]
        ELSE LET id == CHOOSE i \in found : TRUE
             IN  [ok |-> TRUE, uid |-> id, db |-> revoke_refresh_token(db, id)]

\* AuthService.logout_user
logout_user(db, refresh_token, t) ==
    LET payload == jwt_decode(refresh_token, REFRESH_SECRET_KEY, t)
    IN  IF ~payload.ok THEN [ok |-> FALSE, uid |-> 0, db |-> db]
        ELSE IF get_by_id(db, payload.sub) = {} THEN [ok |-> FALSE, uid |-> 0, db |-> db]
        ELSE [ok |-> TRUE, uid |-> payload.sub,
              db |-> revoke_refresh_token(db, payload.sub)]

\* --------------------------------------------------- dependencies and RBAC
\* a get_current_user that also wants a live refresh session on the row
get_current_user_in_session(db, credentials, t) ==
    LET payload == jwt_decode(credentials, SECRET_KEY, t)
    IN  IF ~payload.ok THEN [status |-> 401, uid |-> 0]
        ELSE IF get_by_id(db, payload.sub) = {} THEN [status |-> 401, uid |-> 0]
        ELSE IF db[payload.sub].refresh_token = NullToken THEN [status |-> 401, uid |-> 0]
        ELSE [status |-> 200, uid |-> payload.sub]

\* get_current_user: 401 unless the access token decodes and its subject exists
get_current_user(db, credentials, t) ==
    LET payload == jwt_decode(credentials, SECRET_KEY, t)
    IN  IF ~payload.ok THEN [status |-> 401, uid |-> 0]
        ELSE IF get_by_id(db, payload.sub) = {} THEN [status |-> 401, uid |-> 0]
        ELSE [status |-> 200, uid |-> payload.sub]

\* a role_checker that trusts the role claim of the token
require_role_by_claim(db, credentials, t, allowed_roles) ==
    LET current_user == get_current_user(db, credentials, t)
    IN  IF current_user.status # 200 THEN current_user
        ELSE IF credentials.role \notin allowed_roles
             THEN [status |-> 403, uid |-> 0]
             ELSE current_user

\* require_role(*allowed_roles).role_checker
require_role(db, credentials, t, allowed_roles) ==
    LET current_user == get_current_user(db, credentials, t)
    IN  IF current_user.status # 200 THEN current_user
        ELSE IF db[current_user.uid].role \notin allowed_roles
             THEN [status |-> 403, uid |-> 0]
             ELSE current_user

\* an admin guard that lets pro callers through
require_admin_or_pro(db, credentials, t) == require_role(db, credentials, t, {"pro", "admin"})

require_admin(db, credentials, t) == require_role(db, credentials, t, {"admin"})

require_pro(db, credentials, t) == require_role(db, credentials, t, {"pro", "admin"})

\* ------------------------------------------------------------ HTTP handlers
\* Each handler is a function of the store, the request and the clock; it
\* yields the response and the store it leaves behind.
Reply(status, uid, access, refresh, role, ran, db) ==
    [status |-> status, uid |-> uid, access |-> access, refresh |-> refresh,
     role |-> role, ran |-> ran, db |-> db]

\* a login that tells an unknown email from a wrong password
login_revealing(db, email, password, t) ==
    LET authenticated == authenticate_user(db, email, password)
    IN  IF get_by_email(db, email) = {}
        THEN Reply(404, 0, NullToken, NullToken, NoRole, FALSE, db)
        ELSE IF authenticated = {}
        THEN Reply(401, 0, NullToken, NullToken, NoRole, FALSE, db)
        ELSE LET id == CHOOSE i \in authenticated : TRUE
                 tokens == issue_tokens(db, id, db[id], t)
             IN  Reply(200, id, tokens.access, tokens.refresh, db[id].role, TRUE,
                       tokens.db)

\* POST /auth/login
login(db, email, password, t) ==
    LET authenticated == authenticate_user(db, email, password)
    IN  IF authenticated = {}
        THEN Reply(401, 0, NullToken, NullToken, NoRole, FALSE, db)
        ELSE LET id == CHOOSE i \in authenticated : TRUE
                 tokens == issue_tokens(db, id, db[id], t)
             IN  Reply(200, id, tokens.access, tokens.refresh, db[id].role, TRUE,
                       tokens.db)

\* the detail of the HTTPException login raises (the source text is Russian:
\* "wrong email or password"), "" when it raises none
LoginDetail == "wrong email or password"

login_detail(db, email, password) ==
    IF authenticate_user(db, email, password) = {}
    THEN LoginDetail
    ELSE ""

\* a register that takes over the row of an email already in use
register_upsert(db, id, email, password, t) ==
    LET existing == get_by_email(db, email)
        row == NewUser(email, password)
        rid == IF existing = {} THEN id ELSE CHOOSE i \in existing : TRUE
        tokens == issue_tokens(create_user(db, rid, row), rid, row, t)
    IN  Reply(200, rid, tokens.access, tokens.refresh, row.role, TRUE, tokens.db)

\* POST /auth/register; id is the next value of the serial primary key
register(db, id, email, password, t) ==
    IF get_by_email(db, email) # {}
    THEN Reply(400, 0, NullToken, NullToken, NoRole, FALSE, db)
    ELSE LET row == NewUser(email, password)
             tokens == issue_tokens(create_user(db, id, row), id, row, t)
         IN  Reply(200, id, tokens.access, tokens.refresh, row.role, TRUE, tokens.db)

\* a refresh that answers 403 when it detected reuse
refresh_token_flagging(db, tok, t) ==
    LET result == rotate_refresh_token(db, tok, t)
    IN  IF ~result.ok
        THEN Reply(IF result.why = "reuse" THEN 403 ELSE 401, 0, NullToken, NullToken,
                   NoRole, FALSE, result.db)
        ELSE Reply(200, result.uid, result.access, result.refresh, result.role, TRUE,
                   result.db)

\* POST /auth/refresh
refresh_token(db, tok, t) ==
    LET result == rotate_refresh_token(db, tok, t)
    IN  IF ~result.ok
        THEN Reply(401, 0, NullToken, NullToken, NoRole, FALSE, result.db)
        ELSE Reply(200, result.uid, result.access, result.refresh, result.role, TRUE,
                   result.db)

\* a logout that reports the failure of logout_user
logout_reporting(db, tok, t) ==
    LET result == logout_user(db, tok, t)
    IN  Reply(IF result.ok THEN 204 ELSE 401, result.uid, NullToken, NullToken, NoRole,
              result.ok, result.db)

\* the detail of the HTTPException refresh_token raises (the source text is
\* Russian: "invalid or expired refresh token"), "" when it raises none
RefreshDetail == "invalid or expired refresh token"

refresh_detail(db, tok, t) ==
    IF rotate_refresh_token(db, tok, t).ok THEN "" ELSE RefreshDetail

\* POST /auth/logout: 204 whatever logout_user returned
logout(db, tok, t) ==
    LET result == logout_user(db, tok, t)
    IN  Reply(204, result.uid, NullToken, NullToken, NoRole, result.ok, result.db)

\* a /auth/me that answers with the role claim of the token
get_me_by_claim(db, tok, t) ==
    LET current_user == get_current_user(db, tok, t)
    IN  IF current_user.status # 200
        THEN Reply(current_user.status, 0, NullToken, NullToken, NoRole, FALSE, db)
        ELSE Reply(200, current_user.uid, NullToken, NullToken, tok.role, TRUE, db)

\* GET /auth/me: UserMeResponse.role is read from the loaded row
get_me(db, tok, t) ==
    LET current_user == get_current_user(db, tok, t)
    IN  IF current_user.status # 200
        THEN Reply(current_user.status, 0, NullToken, NullToken, NoRole, FALSE, db)
        ELSE Reply(200, current_user.uid, NullToken, NullToken,
                   db[current_user.uid].role, TRUE, db)

\* GET /admin/users
list_users(db, tok, t) ==
    LET guard == require_admin(db, tok, t)
    IN  Reply(guard.status, guard.uid, NullToken, NullToken, NoRole,
              guard.status = 200, db)

\* GET /dishes/meal-types
get_meal_types(db, tok, t) ==
    LET guard == require_pro(db, tok, t)
    IN  Reply(guard.status, guard.uid, NullToken, NullToken, NoRole,
              guard.status = 200, db)

\* PUT /admin/users/{user_id}/role
update_user_role(db, tok, user_id, role, t) ==
    LET guard == require_admin(db, tok, t)
        ran == guard.status = 200
    IN  IF ~ran THEN Reply(guard.status, 0, NullToken, NullToken, NoRole, FALSE, db)
        ELSE IF user_id = guard.uid
             THEN Reply(400, guard.uid, NullToken, NullToken, NoRole, TRUE, db)
        ELSE IF role \notin RoleEnum
             THEN Reply(400, guard.uid, NullToken, NullToken, NoRole, TRUE, db)
        ELSE IF user_id \notin DOMAIN db
             THEN Reply(404, guard.uid, NullToken, NullToken, NoRole, TRUE, db)
        ELSE Reply(200, guard.uid, NullToken, NullToken, role, TRUE,
                   [db EXCEPT ![user_id].role = role])

\* DELETE /admin/users/{user_id}
delete_user(db, tok, user_id, t) ==
    LET guard == require_admin(db, tok, t)
        ran == guard.status = 200
    IN  IF ~ran THEN Reply(guard.status, 0, NullToken, NullToken, NoRole, FALSE, db)
        ELSE IF user_id = guard.uid
             THEN Reply(400, guard.uid, NullToken, NullToken, NoRole, TRUE, db)
        ELSE IF user_id \notin DOMAIN db
             THEN Reply(404, guard.uid, NullToken, NullToken, NoRole, TRUE, db)
        ELSE Reply(200, guard.uid, NullToken, NullToken, NoRole, TRUE,
                   [i \in DOMAIN db \ {user_id} |-> db[i]])


\* ------------------------------------------------------------------- state
RefreshTokens(S) == {tk \in S : tk.key = REFRESH_SECRET_KEY}

AccessTokens(S) == {tk \in S : tk.key = SECRET_KEY}

\* main.startup_event: create_test_data and create_admin_user
SeedUsers ==
    [i \in {1, 2} |->
        IF i = 1 THEN NewUser("test@example.com", "p1")
        ELSE [NewUser("admin@trai.com", "p1") EXCEPT !.role = "admin"]]

NoRotation == <<NullToken, NullToken>>

\* column defaults: ai_workout_uses 0, ai_workout_reset_date NULL; no workouts
NoTraining ==
    [uses |-> [i \in Ids |-> 0], reset |-> [i \in Ids |-> NullTime], workouts |-> {}]

Slots == 1..MaxReqs

NullRow ==
    [email |-> "", password |-> [valid |-> FALSE, of |-> ""], role |-> NoRole,
     refresh_token |-> NullToken, refresh_token_expires |-> NullTime]

IdleReq ==
    [pc |-> "idle", tok |-> NullToken, uid |-> 0, row |-> NullRow, status |-> 0,
     refresh |-> NullToken, raced |-> FALSE, detail |-> ""]

Session(db, i) == IF i \in DOMAIN db THEN db[i].refresh_token ELSE NullToken

\* What a request met when it arrived, recorded with its response so that
\* the properties can relate the two.
Observe(op, tok, id, reply) ==
    [op |-> op,
     status |-> reply.status, uid |-> reply.uid, access |-> reply.access,
     refresh |-> reply.refresh, role |-> reply.role, ran |-> reply.ran,
     presented |-> tok,
     fresh |-> tok.exp >= Sec(now),
     subj |-> id,
     subjExists |-> id \in DOMAIN users,
     dbRole |-> IF id \in DOMAIN users THEN users[id].role ELSE NoRole,
     prev |-> Session(users, id),
     prevBy |-> IF id \in Ids THEN writer[id] ELSE "none",
     stored |-> \E i \in DOMAIN users : users[i].refresh_token = tok,
     successor |-> IF id \in Ids /\ rot[id][1] = tok /\ tok # NullToken
                   THEN rot[id][2] ELSE NullToken,
     again |-> last.op = op /\ last.presented = tok,
     changed |-> reply.db # users]

Init ==
    /\ now = 0
    /\ users = SeedUsers
    /\ nextId = 3
    /\ issued = {}
    /\ last = [op |-> "none", status |-> 0, uid |-> 0, access |-> NullToken,
               refresh |-> NullToken, role |-> NoRole, ran |-> FALSE,
               presented |-> NullToken, fresh |-> FALSE, subj |-> 0,
               subjExists |-> FALSE,
               dbRole |-> NoRole, prev |-> NullToken, prevBy |-> "none",
               stored |-> FALSE, successor |-> NullToken, again |-> FALSE,
               changed |-> FALSE]
    /\ writer = [i \in Ids |-> "none"]
    /\ rot = [i \in Ids |-> NoRotation]
    /\ reqs = [r \in Slots |-> IdleReq]
    /\ training = NoTraining

\* the clients hold the tokens they were given, and may send garbage
PresentableRefresh == RefreshTokens(issued) \cup {Malformed}

PresentableAccess == AccessTokens(issued) \cup {Malformed}

\* bound on the number of distinct tokens a run issues
MayIssue(reply) ==
    \/ reply.status # 200
    \/ /\ \/ reply.refresh \in issued
          \/ Cardinality(RefreshTokens(issued)) < MaxIssued
       /\ \/ reply.access \in issued
          \/ Cardinality(AccessTokens(issued)) < MaxIssued

Hand(reply) ==
    IF reply.status = 200 THEN issued \cup {reply.access, reply.refresh} ELSE issued

\* the request that last wrote the session fields of each row
Wrote(by, reply) ==
    [i \in Ids |->
        IF i \in DOMAIN reply.db
           /\ (i \notin DOMAIN users
               \/ reply.db[i].refresh_token # users[i].refresh_token
               \/ reply.db[i].refresh_token_expires # users[i].refresh_token_expires
               \/ (reply.status = 200 /\ reply.uid = i))
        THEN by ELSE writer[i]]

\* ------------------------------------------------------------------ actions
\* a second passes between two requests
Tick ==
    /\ now + TicksPerSecond <= MaxTick
    /\ now' = now + TicksPerSecond
    /\ UNCHANGED <<users, nextId, issued, last, writer, rot, reqs, training>>

\* a fraction of a second passes between two requests
SubTick ==
    /\ now < MaxTick
    /\ now' = now + 1
    /\ UNCHANGED <<users, nextId, issued, last, writer, rot, reqs, training>>

Register(email, password) ==
    LET reply == register(users, nextId, email, password, now)
    IN  /\ reply.status = 200 => nextId <= MaxIds
        /\ MayIssue(reply)
        /\ users' = reply.db
        /\ nextId' = IF reply.status = 200 THEN nextId + 1 ELSE nextId
        /\ issued' = Hand(reply)
        /\ last' = Observe("register", NullToken, reply.uid, reply)
        /\ writer' = Wrote("register", reply)
        /\ UNCHANGED <<now, rot, reqs, training>>

Login(email, password) ==
    LET reply == login(users, email, password, now)
    IN  /\ MayIssue(reply)
        /\ users' = reply.db
        /\ issued' = Hand(reply)
        /\ last' = Observe("login", NullToken, reply.uid, reply)
        /\ writer' = Wrote("login", reply)
        /\ UNCHANGED <<now, nextId, rot, reqs, training>>

Refresh(tok) ==
    LET reply == refresh_token(users, tok, now)
        why == rotate_refresh_token(users, tok, now).why
    IN  /\ MayIssue(reply)
        /\ users' = reply.db
        /\ issued' = Hand(reply)
        /\ last' = Observe("refresh", tok, tok.sub, reply)
        /\ writer' = Wrote(why, reply)
        /\ rot' = IF reply.status = 200
                  THEN [rot EXCEPT ![reply.uid] = <<tok, reply.refresh>>]
                  ELSE rot
        /\ UNCHANGED <<now, nextId, reqs, training>>

Logout(tok) ==
    LET reply == logout(users, tok, now)
    IN  /\ users' = reply.db
        /\ last' = Observe("logout", tok, tok.sub, reply)
        /\ writer' = Wrote("logout", reply)
        /\ UNCHANGED <<now, nextId, issued, rot, reqs, training>>

GetMe(tok) ==
    /\ last' = Observe("me", tok, tok.sub, get_me(users, tok, now))
    /\ UNCHANGED <<now, users, nextId, issued, writer, rot, reqs, training>>

ListUsers(tok) ==
    /\ last' = Observe("list_users", tok, tok.sub, list_users(users, tok, now))
    /\ UNCHANGED <<now, users, nextId, issued, writer, rot, reqs, training>>

GetMealTypes(tok) ==
    /\ last' = Observe("meal_types", tok, tok.sub, get_meal_types(users, tok, now))
    /\ UNCHANGED <<now, users, nextId, issued, writer, rot, reqs, training>>

UpdateUserRole(tok, user_id, role) ==
    LET reply == update_user_role(users, tok, user_id, role, now)
    IN  /\ users' = reply.db
        /\ last' = Observe("update_role", tok, tok.sub, reply)
        /\ UNCHANGED <<now, nextId, issued, writer, rot, reqs, training>>

DeleteUser(tok, user_id) ==
    LET reply == delete_user(users, tok, user_id, now)
    IN  /\ users' = reply.db
        /\ last' = Observe("delete_user", tok, tok.sub, reply)
        /\ UNCHANGED <<now, nextId, issued, writer, rot, reqs, training>>

\* Session lifecycle: register, login, refresh, logout, and /auth/me
Next ==
    \/ Tick
    \/ \E email \in Emails : Register(email, "p1")
    \/ \E email \in Emails, password \in Passwords : Login(email, password)
    \/ \E tok \in PresentableRefresh : Refresh(tok)
    \/ \E tok \in PresentableRefresh : Logout(tok)
    \/ \E tok \in PresentableAccess : GetMe(tok)

Spec == Init /\ [][Next]_vars

\* Identity and role guard: access tokens against a store whose roles and
\* rows the admin routes change
RbacNext ==
    \/ Tick
    \/ \E email \in Emails, password \in Passwords : Login(email, password)
    \/ \E tok \in PresentableAccess : GetMe(tok)
    \/ \E tok \in PresentableAccess : ListUsers(tok)
    \/ \E tok \in PresentableAccess : GetMealTypes(tok)
    \/ \E tok \in PresentableAccess, user_id \in Ids, role \in RoleEnum \cup {"root"} :
            UpdateUserRole(tok, user_id, role)
    \/ \E tok \in PresentableAccess, user_id \in Ids : DeleteUser(tok, user_id)

RbacSpec == Init /\ [][RbacNext]_vars

TypeOK ==
    /\ now \in 0..MaxTick
    /\ DOMAIN users \subseteq Ids
    /\ \A i \in DOMAIN users : users[i].role \in RoleEnum


\* ------------------------------------------------- interleaved requests
\* Every request works on its own AsyncSession (get_db): the row it loaded is
\* a private copy, and commit() writes back the columns whose value differs
\* from the loaded one, WHERE id = the row's id.
commit_session(db, id, row, token, expires) ==
    [db EXCEPT ![id].refresh_token =
                    IF token # row.refresh_token THEN token ELSE @,
               ![id].refresh_token_expires =
                    IF expires # row.refresh_token_expires THEN expires ELSE @]

\* the UPDATE of a dirty row finds no row: StaleDataError, answered with 500
Stale(db, id, row, token, expires) ==
    /\ id \notin DOMAIN db
    /\ \/ token # row.refresh_token
       \/ expires # row.refresh_token_expires

Done(r, status, refresh) ==
    [reqs[r] EXCEPT !.pc = "done", !.status = status, !.refresh = refresh]

\* rotate_refresh_token up to the first await: decode, then look the token up
RotateLookup(r, tok) ==
    /\ reqs[r].pc \in {"idle", "done"}
    /\ LET payload == jwt_decode(tok, REFRESH_SECRET_KEY, now)
           found == get_by_refresh_token(users, tok)
           fresh == [IdleReq EXCEPT !.tok = tok]
       IN  reqs' = [reqs EXCEPT ![r] =
                IF ~payload.ok THEN [fresh EXCEPT !.pc = "done", !.status = 401]
                ELSE IF found = {} THEN [fresh EXCEPT !.pc = "victim", !.uid = payload.sub]
                ELSE LET id == CHOOSE i \in found : TRUE
                     IN  [fresh EXCEPT !.pc = "found", !.uid = id, !.row = users[id]]]
    /\ UNCHANGED <<now, users, nextId, issued, last, writer, rot, training>>

\* the token matched no row: load the subject by id
RotateVictim(r) ==
    /\ reqs[r].pc = "victim"
    /\ reqs' = [reqs EXCEPT ![r] =
            IF get_by_id(users, reqs[r].uid) = {} THEN Done(r, 401, NullToken)
            ELSE [reqs[r] EXCEPT !.pc = "revoke", !.row = users[reqs[r].uid]]]
    /\ UNCHANGED <<now, users, nextId, issued, last, writer, rot, training>>

\* revoke_refresh_token(victim), then answer 401
RotateRevoke(r) ==
    /\ reqs[r].pc = "revoke"
    /\ LET id == reqs[r].uid
           row == reqs[r].row
       IN  IF Stale(users, id, row, NullToken, NullTime)
           THEN /\ reqs' = [reqs EXCEPT ![r] = Done(r, 500, NullToken)]
                /\ UNCHANGED users
           ELSE /\ users' = IF id \in DOMAIN users
                            THEN commit_session(users, id, row, NullToken, NullTime)
                            ELSE users
                /\ reqs' = [reqs EXCEPT ![r] = Done(r, 401, NullToken)]
    /\ UNCHANGED <<now, nextId, issued, last, writer, rot, training>>

\* the token matched a row: check the stored expiry of the loaded row, then
\* revoke, or issue a new pair and save it
RotateFound(r) ==
    /\ reqs[r].pc = "found"
    /\ LET id == reqs[r].uid
           row == reqs[r].row
           expired == row.refresh_token_expires = NullTime
                      \/ row.refresh_token_expires < now
           new_access == create_access_token(id, row.role, now)
           new_refresh == create_refresh_token(id, now)
           new_token == IF expired THEN NullToken ELSE new_refresh
           new_expires == IF expired THEN NullTime ELSE refresh_expiry(now)
       IN  IF Stale(users, id, row, new_token, new_expires)
           THEN /\ reqs' = [reqs EXCEPT ![r] = Done(r, 500, NullToken)]
                /\ UNCHANGED <<users, issued>>
           ELSE /\ ~expired =>
                    /\ new_refresh \in issued
                         \/ Cardinality(RefreshTokens(issued)) < MaxIssued
                    /\ new_access \in issued
                         \/ Cardinality(AccessTokens(issued)) < MaxIssued
                /\ users' = IF id \in DOMAIN users
                            THEN commit_session(users, id, row, new_token, new_expires)
                            ELSE users
                /\ issued' = IF expired THEN issued
                             ELSE issued \cup {new_access, new_refresh}
                /\ reqs' = [q \in Slots |->
                        IF q = r
                        THEN Done(r, IF expired THEN 401 ELSE 200, new_token)
                        ELSE IF ~expired /\ reqs[q].pc = "found"
                                /\ reqs[q].tok = reqs[r].tok
                             THEN [reqs[q] EXCEPT !.raced = TRUE]
                             ELSE reqs[q]]
    /\ UNCHANGED <<now, nextId, last, writer, rot, training>>

\* Refresh requests whose store reads and writes interleave
ConcNext ==
    \/ Tick
    \/ \E email \in Emails : Login(email, "p1")
    \/ \E r \in Slots, tok \in PresentableRefresh : RotateLookup(r, tok)
    \/ \E r \in Slots : RotateVictim(r)
    \/ \E r \in Slots : RotateRevoke(r)
    \/ \E r \in Slots : RotateFound(r)

ConcSpec == Init /\ [][ConcNext]_vars

\* ================================================================ properties
Expires(db, i) == IF i \in DOMAIN db THEN db[i].refresh_token_expires ELSE NullTime

\* POST /auth/refresh with tok would answer 200 in the current state
WouldRotate(tok) == refresh_token(users, tok, now).status = 200

\* the presented token is a refresh token of this service whose exp has not passed
ValidRefresh == last.presented.key = REFRESH_SECRET_KEY /\ last.fresh

\* the presented token is an access token of this service whose exp has not passed
ValidAccess == last.presented.key = SECRET_KEY /\ last.fresh

\* C1 (as claimed): one-shot rotation. After a successful rotate(T) the stored
\* refresh token differs from T, and every later rotate(T) answers 401.
C1_OneShotRotation ==
    /\ (last.op = "refresh" /\ last.status = 200)
            => Session(users, last.uid) # last.presented
    /\ (last.op = "refresh" /\ last.successor # NullToken) => last.status = 401
    /\ \A i \in Ids : rot[i] # NoRotation => ~WouldRotate(rot[i][1])

\* C2 (as claimed): reuse revokes the session. A rotate with a valid refresh
\* token that no row stores and whose subject exists answers 401 and empties the
\* subject's session fields; and once rotate(T) = T2 succeeded and T, still
\* unexpired, was presented again, rotate(T2) is refused.
C2_ReuseRevokesSession ==
    /\ (last.op = "refresh" /\ ValidRefresh /\ ~last.stored /\ last.subjExists)
            => /\ last.status = 401
               /\ Session(users, last.subj) = NullToken
               /\ Expires(users, last.subj) = NullTime
    /\ (last.op = "refresh" /\ ValidRefresh /\ last.successor # NullToken)
            => ~WouldRotate(last.successor)

\* C4 (as claimed): single active session. Rotate can succeed for at most one
\* token value per user, the stored one; every issue leaves the issued token
\* stored; the token of an earlier login is refused after a later login.
C4_SingleActiveSession ==
    /\ \A tk \in RefreshTokens(issued) :
            WouldRotate(tk) => Session(users, tk.sub) = tk
    /\ (last.op \in {"register", "login", "refresh"} /\ last.status = 200)
            => Session(users, last.uid) = last.refresh
    /\ (last.op = "login" /\ last.status = 200 /\ last.prevBy = "login"
            /\ last.prev # NullToken)
            => ~WouldRotate(last.prev)

\* C5: logout always answers 204; with a valid token of an existing user it
\* leaves that user's session fields NULL; repeating the same logout answers
\* 204 again and does not change the store.
C5_LogoutIdempotent ==
    last.op = "logout" =>
        /\ last.status = 204
        /\ (ValidRefresh /\ last.subjExists)
                => /\ Session(users, last.subj) = NullToken
                   /\ Expires(users, last.subj) = NullTime
        /\ last.again => ~last.changed

\* C5 witness: a second logout with the same valid token, after the first one
\* ended a session
C5_Witness ==
    /\ last.op = "logout" /\ last.again /\ last.ran
    /\ ValidRefresh
    /\ writer[last.subj] = "logout"

\* C6 (as claimed): logout ignores expiry. A logout with an issued refresh token
\* whose exp has passed still clears the subject's session fields.
C6_LogoutIgnoresExpiry ==
    (last.op = "logout" /\ last.presented \in RefreshTokens(issued)
        /\ ~last.fresh /\ last.subjExists)
        => /\ Session(users, last.subj) = NullToken
           /\ Expires(users, last.subj) = NullTime

\* ------------------------------------------------------------- role guard
GuardedOps == {"list_users", "meal_types", "update_role", "delete_user"}

Allowed(op) == IF op = "meal_types" THEN {"pro", "admin"} ELSE {"admin"}

\* C7: the guard's allow/forbid decision is a function of the role stored for
\* the token's subject when the request arrives, never of the token's role claim.
C7_GuardUsesStoredRole ==
    (last.op \in GuardedOps /\ last.status # 401) =>
        /\ last.status = 403 <=> last.dbRole \notin Allowed(last.op)
        /\ last.ran <=> last.dbRole \in Allowed(last.op)

\* C7 witness: both directions of a role change after issuance were decided by
\* the stored role: here a token issued to a "user" passes the pro guard
C7_Witness ==
    /\ last.op = "meal_types" /\ last.status = 200
    /\ last.presented.role = "user" /\ last.dbRole = "pro"

\* C8 (as claimed): /auth/me answers with the role claim of the token
C8_MeReturnsTokenRole ==
    (last.op = "me" /\ last.status = 200) => last.role = last.presented.role

\* C8 (amended): /auth/me answers with the role stored for the subject when
\* the request arrives
C8_MeReturnsStoredRole ==
    (last.op = "me" /\ last.status = 200) => last.role = last.dbRole

C8_Witness ==
    /\ last.op = "me" /\ last.status = 200
    /\ last.presented.role # last.dbRole

C10_AccessTokensStateless ==
    last.op = "me" =>
        (last.status = 200 <=> (ValidAccess /\ last.subjExists))

\* C10 witness: /auth/me succeeded for a user whose session a logout had cleared
C10_Witness ==
    /\ last.op = "me" /\ last.status = 200
    /\ Session(users, last.subj) = NullToken
    /\ writer[last.subj] = "logout"

\* the same after a revocation by reuse detection
C10_AfterReuse ==
    /\ last.op = "me" /\ last.status = 200
    /\ Session(users, last.subj) = NullToken
    /\ writer[last.subj] = "reuse"


\* ------------------------------------------------------------ concurrency
\* C3 (as claimed): of two rotate calls that both read the same stored token
\* before either wrote, at most one answers 200; the one whose token another
\* request rotated in the meantime answers 401.
C3_OneWinner ==
    /\ \A r \in Slots : (reqs[r].pc = "done" /\ reqs[r].raced) => reqs[r].status = 401
    /\ \A r1, r2 \in Slots :
            (r1 # r2 /\ reqs[r1].pc = "done" /\ reqs[r2].pc = "done"
                /\ reqs[r1].tok = reqs[r2].tok /\ reqs[r2].raced)
            => ~(reqs[r1].status = 200 /\ reqs[r2].status = 200)


\* ------------------------------------------------- tokens of every class
\* a well-formed token for the seeded admin, signed with a key the service
\* does not hold
Forged ==
    [key |-> "ATTACKER_KEY", sub |-> 2, role |-> "admin", exp |-> Sec(MaxTick) + RefreshTtl]

\* the clients may send any token they hold to any endpoint
Presentable == issued \cup {Malformed, Forged}

\* Every token-taking endpoint against tokens of either class, expired tokens,
\* tokens of deleted subjects, forged and malformed tokens
TokenNext ==
    \/ Tick
    \/ \E email \in Emails : Login(email, "p1")
    \/ \E tok \in Presentable : Refresh(tok)
    \/ \E tok \in Presentable : Logout(tok)
    \/ \E tok \in Presentable : GetMe(tok)
    \/ \E tok \in PresentableAccess, user_id \in Ids : DeleteUser(tok, user_id)

TokenSpec == Init /\ [][TokenNext]_vars

\* C11: /auth/me answers 401 and hands out no profile whenever the token is
\* malformed, signed with another key or past its exp, and also when a valid
\* token names a subject whose row has been deleted.
C11_Unauthenticated ==
    last.op = "me" =>
        /\ last.presented.key # SECRET_KEY => (last.status = 401 /\ ~last.ran)
        /\ ~last.fresh => (last.status = 401 /\ ~last.ran)
        /\ ~last.subjExists => (last.status = 401 /\ ~last.ran)

\* C11 witness: a valid access token whose subject an admin has deleted
C11_Witness ==
    /\ last.op = "me" /\ last.status = 401
    /\ ValidAccess /\ ~last.subjExists

\* the other refusals: an expired token of an existing subject
C11_ExpiredSeen ==
    /\ last.op = "me" /\ last.status = 401
    /\ last.presented.key = SECRET_KEY /\ ~last.fresh /\ last.subjExists

\* a token signed with the refresh key, and a forged one
C11_WrongKeySeen ==
    /\ last.op = "me" /\ last.status = 401
    /\ last.presented.key = REFRESH_SECRET_KEY /\ last.fresh /\ last.subjExists

\* C12: a refresh whose token fails decoding (malformed, signed with another
\* key, or exp in the past) answers 401, calls no repository method and leaves
\* the store as it was, also when the token is the value stored on a row.
C12_DecodeFailureNoStoreAccess ==
    (last.op = "refresh" /\ (last.presented.key # REFRESH_SECRET_KEY \/ ~last.fresh)) =>
        /\ last.status = 401
        /\ ~last.changed
        /\ rotate_repo_calls(users, last.presented, now) = <<>>
        /\ last.stored => Session(users, last.subj) = last.presented

\* C12 witness: the refused token is past its exp and is the stored value of
\* its subject's row
C12_Witness ==
    /\ last.op = "refresh" /\ last.status = 401
    /\ last.presented.key = REFRESH_SECRET_KEY /\ ~last.fresh
    /\ last.stored /\ Session(users, last.subj) = last.presented

\* ------------------------------------------------------------ failed login
InvalidCredentials(db) == Reply(401, 0, NullToken, NullToken, NoRole, FALSE, db)

UnknownEmail(email) == get_by_email(users, email) = {}

WrongPassword(email, password) ==
    /\ get_by_email(users, email) # {}
    /\ authenticate_user(users, email, password) = {}

\* C13: a login with an unknown email and a login with a known email and a
\* wrong password get the same 401 response with the same detail, and neither
\* changes the store.
C13_FailedLoginUniform ==
    /\ \A email \in Emails, password \in Passwords :
            (UnknownEmail(email) \/ WrongPassword(email, password))
            => /\ login(users, email, password, now) = InvalidCredentials(users)
               /\ login_detail(users, email, password) = LoginDetail
    /\ (last.op = "login" /\ last.status # 200)
            => (last.status = 401 /\ ~last.changed /\ ~last.ran
                /\ last.access = NullToken /\ last.refresh = NullToken)

\* C13 witness: a login has just failed in a state where both causes exist,
\* an unknown email and a wrong password for a user with a live session
C13_Witness ==
    /\ last.op = "login" /\ last.status = 401
    /\ \E email \in Emails : UnknownEmail(email)
    /\ \E email \in Emails, password \in Passwords :
            /\ WrongPassword(email, password)
            /\ \E i \in get_by_email(users, email) : Session(users, i) # NullToken

\* --------------------------------------------------------- failed refresh
\* Refresh at sub-second resolution, where the stored expiry of a row can pass
\* while the exp claim of its token, a whole second, has not
FineNext ==
    \/ SubTick
    \/ \E email \in Emails : Login(email, "p1")
    \/ \E tok \in Presentable : Refresh(tok)
    \/ \E tok \in PresentableAccess, user_id \in Ids : DeleteUser(tok, user_id)

FineSpec == Init /\ [][FineNext]_vars

InvalidOrExpiredToken(db) == Reply(401, 0, NullToken, NullToken, NoRole, FALSE, db)

\* the branch rotate_refresh_token would take for tok in the current state
Cause(tok) == rotate_refresh_token(users, tok, now).why

\* C14: every failing refresh, whatever made it fail and whether or not it
\* revoked a session, gets the same 401 response with the same detail.
C14_FailedRefreshUniform ==
    /\ \A tok \in Presentable :
            LET reply == refresh_token(users, tok, now)
            IN  reply.status # 200
                => /\ [reply EXCEPT !.db = users] = InvalidOrExpiredToken(users)
                   /\ refresh_detail(users, tok, now) = RefreshDetail
    /\ (last.op = "refresh" /\ last.status # 200)
            => (last.status = 401 /\ last.uid = 0 /\ last.role = NoRole
                /\ last.access = NullToken /\ last.refresh = NullToken)

\* C14 witness: a refresh has just failed and revoked a session because the
\* stored expiry had passed, while a malformed token is refused without a
\* revocation
C14_Witness ==
    /\ last.op = "refresh" /\ last.status = 401 /\ last.changed
    /\ last.fresh /\ last.stored
    /\ writer[last.subj] = "expired"
    /\ Cause(Malformed) = "jwt"

\* the other causes: a replayed token, with a revocation
C14_ReuseSeen ==
    /\ last.op = "refresh" /\ last.status = 401 /\ last.changed
    /\ writer[last.subj] = "reuse"

\* a valid token of a deleted subject
C14_UnknownSeen ==
    /\ last.op = "refresh" /\ last.status = 401
    /\ last.presented.key = REFRESH_SECRET_KEY /\ last.fresh /\ ~last.subjExists

\* a token past its exp, and one signed with another key
C14_ExpiredSeen ==
    /\ last.op = "refresh" /\ last.status = 401
    /\ last.presented.key = REFRESH_SECRET_KEY /\ ~last.fresh

C14_BadSignatureSeen ==
    /\ last.op = "refresh" /\ last.status = 401
    /\ last.presented \in {Forged} \cup AccessTokens(issued)

\* ------------------------------------------------------------- registration
DuplicateEmail(db) == Reply(400, 0, NullToken, NullToken, NoRole, FALSE, db)

\* C15: register with an email some row already has answers 400, adds no row,
\* returns no tokens and leaves every existing row as it was.
C15_DuplicateRegisterRefused ==
    /\ \A email \in Emails, password \in Passwords :
            get_by_email(users, email) # {}
            => register(users, nextId, email, password, now) = DuplicateEmail(users)
    /\ (last.op = "register" /\ last.status # 200)
            => (last.status = 400 /\ ~last.changed /\ ~last.ran
                /\ last.access = NullToken /\ last.refresh = NullToken)

\* C15 witness: a register was refused while the owner of an email in use has
\* a live session and a free id remains
C15_Witness ==
    /\ last.op = "register" /\ last.status = 400
    /\ nextId <= MaxIds
    /\ \E i \in DOMAIN users : Session(users, i) # NullToken

\* Registration next to role changes by an admin
RoleNext ==
    \/ Tick
    \/ \E email \in Emails : Register(email, "p1")
    \/ \E email \in Emails : Login(email, "p1")
    \/ \E tok \in PresentableAccess, user_id \in Ids, role \in RoleEnum \cup {"root"} :
            UpdateUserRole(tok, user_id, role)

RoleSpec == Init /\ [][RoleNext]_vars

\* C16: a successful register creates a row with role user, answers with an
\* access token, a refresh token and role user, and leaves the returned
\* refresh token stored on the new row; every row's role is always one of
\* user, pro, admin.
C16_RegisterCreatesUser ==
    /\ (last.op = "register" /\ last.status = 200)
            => /\ ~last.subjExists
               /\ last.uid \in DOMAIN users
               /\ users[last.uid].role = "user"
               /\ last.role = "user"
               /\ last.access.key = SECRET_KEY /\ last.access.sub = last.uid
               /\ last.access.role = "user"
               /\ last.refresh.key = REFRESH_SECRET_KEY /\ last.refresh.sub = last.uid
               /\ Session(users, last.uid) = last.refresh
               /\ Expires(users, last.uid) # NullTime
    /\ \A i \in DOMAIN users : users[i].role \in RoleEnum

\* C16 witness: a register succeeded after an admin had changed a role
C16_Witness ==
    /\ last.op = "register" /\ last.status = 200
    /\ users[1].role # "user"

\* ------------------------------------------------------- store failures
\* str(e) of the exception a failing store call raises
StoreErrorText == "OperationalError: connection to the database was lost"

\* the body of the 500 response the framework sends for an exception that
\* no handler caught
Unhandled == "Internal Server Error"

\* details of the HTTPExceptions the service raises itself (the source texts
\* are Russian)
RegisterDetail == "a user with this email already exists"

MeDetail == "invalid access token"

ForbiddenDetail == "insufficient rights"

Raised(status, detail, db) ==
    [reply |-> Reply(status, 0, NullToken, NullToken, NoRole, FALSE, db),
     detail |-> detail]

InSeq(call, calls) == \E i \in 1..Len(calls) : calls[i] = call

\* the UserRepository calls each operation makes, in order
login_repo_calls(db, email, password) ==
    IF authenticate_user(db, email, password) = {}
    THEN <<"get_by_email">>
    ELSE <<"get_by_email", "save_refresh_token">>

register_repo_calls(db, email) ==
    IF get_by_email(db, email) # {}
    THEN <<"get_by_email">>
    ELSE <<"get_by_email", "create_user", "save_refresh_token">>

logout_repo_calls(db, tok, t) ==
    LET payload == jwt_decode(tok, REFRESH_SECRET_KEY, t)
    IN  IF ~payload.ok THEN <<>>
        ELSE IF get_by_id(db, payload.sub) = {} THEN <<"get_by_id">>
        ELSE <<"get_by_id", "revoke_refresh_token">>

me_repo_calls(db, tok, t) ==
    IF jwt_decode(tok, SECRET_KEY, t).ok THEN <<"get_by_id">> ELSE <<>>

\* login when `call` raises: authenticate_user turns any exception into None,
\* issue_tokens is called outside any try
login_store_fails(db, email, password, t, call) ==
    IF call = "get_by_email"
    THEN Raised(401, LoginDetail, db)
    ELSE Raised(500, Unhandled, db)

\* register when `call` raises: register_user runs inside
\* "except Exception as e: raise HTTPException(400, detail=str(e))",
\* issue_tokens runs after it, with the new row already committed
register_store_fails(db, id, email, password, t, call) ==
    IF call \in {"get_by_email", "create_user"}
    THEN Raised(400, StoreErrorText, db)
    ELSE Raised(500, Unhandled, create_user(db, id, NewUser(email, password)))

\* refresh, logout and /auth/me call the repository outside any try
refresh_store_fails(db, tok, t, call) == Raised(500, Unhandled, db)

logout_store_fails(db, tok, t, call) == Raised(500, Unhandled, db)

me_store_fails(db, tok, t, call) == Raised(500, Unhandled, db)

\* the failed request, with the detail it answered and the call that raised
ObserveFailure(op, tok, id, out, call) ==
    Observe(op, tok, id, out.reply) @@ [detail |-> out.detail, failed |-> call]

StoreCalls ==
    {"get_by_id", "get_by_email", "get_by_refresh_token", "save_refresh_token",
     "revoke_refresh_token", "create_user"}

LoginStoreFails(email, password, call) ==
    LET out == login_store_fails(users, email, password, now, call)
    IN  /\ InSeq(call, login_repo_calls(users, email, password))
        /\ users' = out.reply.db
        /\ last' = ObserveFailure("login", NullToken, 0, out, call)
        /\ UNCHANGED <<now, nextId, issued, writer, rot, reqs, training>>

RegisterStoreFails(email, password, call) ==
    LET out == register_store_fails(users, nextId, email, password, now, call)
        created == DOMAIN out.reply.db # DOMAIN users
    IN  /\ InSeq(call, register_repo_calls(users, email))
        /\ nextId <= MaxIds
        /\ users' = out.reply.db
        /\ nextId' = IF created THEN nextId + 1 ELSE nextId
        /\ last' = ObserveFailure("register", NullToken, 0, out, call)
        /\ writer' = Wrote("register", out.reply)
        /\ UNCHANGED <<now, issued, rot, reqs, training>>

RefreshStoreFails(tok, call) ==
    LET out == refresh_store_fails(users, tok, now, call)
    IN  /\ InSeq(call, rotate_repo_calls(users, tok, now))
        /\ users' = out.reply.db
        /\ last' = ObserveFailure("refresh", tok, tok.sub, out, call)
        /\ UNCHANGED <<now, nextId, issued, writer, rot, reqs, training>>

LogoutStoreFails(tok, call) ==
    LET out == logout_store_fails(users, tok, now, call)
    IN  /\ InSeq(call, logout_repo_calls(users, tok, now))
        /\ users' = out.reply.db
        /\ last' = ObserveFailure("logout", tok, tok.sub, out, call)
        /\ UNCHANGED <<now, nextId, issued, writer, rot, reqs, training>>

GetMeStoreFails(tok, call) ==
    LET out == me_store_fails(users, tok, now, call)
    IN  /\ InSeq(call, me_repo_calls(users, tok, now))
        /\ users' = out.reply.db
        /\ last' = ObserveFailure("me", tok, tok.sub, out, call)
        /\ UNCHANGED <<now, nextId, issued, writer, rot, reqs, training>>

\* The session operations against a store whose calls may raise
FaultNext ==
    \/ Tick
    \/ \E email \in Emails : Login(email, "p1")
    \/ \E tok \in PresentableRefresh : Refresh(tok)
    \/ \E email \in Emails, password \in Passwords, call \in StoreCalls :
            LoginStoreFails(email, password, call)
    \/ \E email \in Emails, call \in StoreCalls : RegisterStoreFails(email, "p1", call)
    \/ \E tok \in PresentableRefresh, call \in StoreCalls : RefreshStoreFails(tok, call)
    \/ \E tok \in PresentableRefresh, call \in StoreCalls : LogoutStoreFails(tok, call)
    \/ \E tok \in PresentableAccess, call \in StoreCalls : GetMeStoreFails(tok, call)

FaultSpec == Init /\ [][FaultNext]_vars

Taxonomy ==
    {[status |-> 401, detail |-> LoginDetail],
     [status |-> 400, detail |-> RegisterDetail],
     [status |-> 401, detail |-> RefreshDetail],
     [status |-> 401, detail |-> MeDetail],
     [status |-> 403, detail |-> ForbiddenDetail]}

SessionOps == {"register", "login", "refresh", "logout", "me"}

\* C17 (as claimed): every response of register, login, refresh, logout and
\* /auth/me is a success or one of the five error kinds, also when a store
\* call raises during the operation; the text of a store exception is never
\* sent.
C17_OnlyTaxonomyOutcomes ==
    last.op \in SessionOps =>
        /\ last.status \in {200, 204, 400, 401, 403}
        /\ "detail" \in DOMAIN last
                => [status |-> last.status, detail |-> last.detail] \in Taxonomy

\* the part of C17 that the code keeps: a store failure inside
\* authenticate_user is answered as InvalidCredentials
C17_LoginReadFailureConverted ==
    (last.op = "login" /\ "failed" \in DOMAIN last /\ last.failed = "get_by_email")
        => [status |-> last.status, detail |-> last.detail] \in Taxonomy

\* ------------------------------------------------------- password digests
\* values of the password column that bcrypt did not produce: the empty
\* string, None, and a string bcrypt.checkpw rejects with ValueError
EmptyDigest == [valid |-> FALSE, of |-> ""]

NullDigest == [valid |-> FALSE, of |-> "None"]

MalformedDigest == [valid |-> FALSE, of |-> "not-a-bcrypt-hash"]

BadDigests == {EmptyDigest, NullDigest, MalformedDigest}

\* what a client can type as a password, the strings above included
Plaintexts == Passwords \cup {"", "None", "not-a-bcrypt-hash"}

\* the store as startup_event left it, except that the password column of the
\* test user may hold a digest written by something other than this service
\* (the column is NOT NULL, so None cannot be stored)
DigestInit ==
    /\ now = 0
    /\ users \in {[SeedUsers EXCEPT ![1].password = d] :
                    d \in {hash_password("p1"), EmptyDigest, MalformedDigest}}
    /\ nextId = 3
    /\ issued = {}
    /\ last = [op |-> "none", status |-> 0, uid |-> 0, access |-> NullToken,
               refresh |-> NullToken, role |-> NoRole, ran |-> FALSE,
               presented |-> NullToken, fresh |-> FALSE, subj |-> 0,
               subjExists |-> FALSE,
               dbRole |-> NoRole, prev |-> NullToken, prevBy |-> "none",
               stored |-> FALSE, successor |-> NullToken, again |-> FALSE,
               changed |-> FALSE]
    /\ writer = [i \in Ids |-> "none"]
    /\ rot = [i \in Ids |-> NoRotation]
    /\ reqs = [r \in Slots |-> IdleReq]
    /\ training = NoTraining

\* Logins of the test user, with any plaintext, and what follows a login
DigestNext ==
    \/ Tick
    \/ \E password \in Plaintexts : Login("test@example.com", password)
    \/ \E tok \in PresentableRefresh : Refresh(tok)
    \/ \E tok \in PresentableRefresh : Logout(tok)

DigestSpec == DigestInit /\ [][DigestNext]_vars

\* C18: verify_password answers false, and raises nothing, for an empty, null
\* or malformed digest and any plaintext; a login against a row with such a
\* digest is answered 401 InvalidCredentials and changes nothing.
C18_VerifyPasswordTotal ==
    /\ \A d \in BadDigests, plain \in Plaintexts : verify_password(plain, d) = FALSE
    /\ \A plain \in Plaintexts :
            ~users[1].password.valid
            => login(users, "test@example.com", plain, now) = InvalidCredentials(users)
    /\ (last.op = "login" /\ ~users[1].password.valid)
            => (last.status = 401 /\ ~last.changed /\ ~last.ran)

\* C18 witness: a login of the test user was refused while the row holds a
\* malformed digest
C18_Witness ==
    /\ last.op = "login" /\ last.status = 401
    /\ users[1].password = MalformedDigest

\* ------------------------------------------------------ AI workout quota
\* AI generations a caller with role user is meant to get per month
AiMonthlyLimit == 3

MuscleGroup == {"upper_body_push", "upper_body_pull", "core_stability", "lower_body"}

\* a row of the workouts table; scheduled is "today" or "earlier" relative to
\* the run, which lasts a few seconds. Rows carry no id: generate-ai replaces
\* the caller's pending rows of today, so two equal rows never coexist.
Workout(user_id, muscle_group, scheduled, ai_generated) ==
    [user_id |-> user_id, muscle_group |-> muscle_group, scheduled |-> scheduled,
     completed |-> FALSE, ai_generated |-> ai_generated]

\* POST /workouts/generate-ai: the guard is get_current_user; the handler
\* deletes the caller's pending workouts of today and adds the generated one.
\* It reads neither role nor ai_workout_uses nor ai_workout_reset_date.
generate_ai_workout(db, tr, tok, muscle_group, t) ==
    LET current_user == get_current_user(db, tok, t)
        user_id == current_user.uid
        workouts_to_delete ==
            {w \in tr.workouts :
                w.user_id = user_id /\ w.scheduled = "today" /\ ~w.completed}
        workout == Workout(user_id, muscle_group, "today", TRUE)
    IN  IF current_user.status # 200
        THEN [status |-> current_user.status, uid |-> 0, training |-> tr,
              created |-> 0, deleted |-> 0]
        ELSE [status |-> 200, uid |-> user_id,
              training |-> [tr EXCEPT !.workouts =
                                (tr.workouts \ workouts_to_delete) \cup {workout}],
              created |-> 1, deleted |-> Cardinality(workouts_to_delete)]

\* the store as startup_event left it, with the test user's generation
\* counter, reset date and pending workout as earlier months and days, or a
\* test fixture, may have left them
AiInit ==
    /\ now = 0
    /\ users = SeedUsers
    /\ nextId = 3
    /\ issued = {}
    /\ last = [op |-> "none", status |-> 0, uid |-> 0, access |-> NullToken,
               refresh |-> NullToken, role |-> NoRole, ran |-> FALSE,
               presented |-> NullToken, fresh |-> FALSE, subj |-> 0,
               subjExists |-> FALSE,
               dbRole |-> NoRole, prev |-> NullToken, prevBy |-> "none",
               stored |-> FALSE, successor |-> NullToken, again |-> FALSE,
               changed |-> FALSE]
    /\ writer = [i \in Ids |-> "none"]
    /\ rot = [i \in Ids |-> NoRotation]
    /\ reqs = [r \in Slots |-> IdleReq]
    /\ \E uses \in 0..AiMonthlyLimit, reset \in {NullTime, 0},
          pending \in SUBSET {Workout(1, "lower_body", "today", FALSE)} :
            training = [uses |-> [NoTraining.uses EXCEPT ![1] = uses],
                        reset |-> [NoTraining.reset EXCEPT ![1] = reset],
                        workouts |-> pending]

GenerateAiWorkout(tok, muscle_group) ==
    LET out == generate_ai_workout(users, training, tok, muscle_group, now)
        reply == Reply(out.status, out.uid, NullToken, NullToken, NoRole,
                       out.status = 200, users)
        id == tok.sub
    IN  /\ training' = out.training
        /\ last' = Observe("generate_ai", tok, id, reply)
                    @@ [created |-> out.created, deleted |-> out.deleted,
                        uses |-> IF id \in Ids THEN training.uses[id] ELSE 0,
                        reset |-> IF id \in Ids THEN training.reset[id] ELSE NullTime]
        /\ UNCHANGED <<now, users, nextId, issued, writer, rot, reqs>>

AiNext ==
    \/ Tick
    \/ \E email \in Emails : Login(email, "p1")
    \/ \E tok \in PresentableAccess, muscle_group \in MuscleGroup :
            GenerateAiWorkout(tok, muscle_group)

AiSpec == AiInit /\ [][AiNext]_vars

\* C19 (as claimed): a generate-ai request of a caller with role user whose
\* ai_workout_uses is at the monthly limit, with a reset date in the current
\* month (any reset date set during the run), is answered 403 and creates and
\* deletes no workout.
C19_AiQuotaEnforced ==
    (last.op = "generate_ai" /\ ValidAccess /\ last.subjExists
        /\ last.dbRole = "user"
        /\ last.uses = AiMonthlyLimit /\ last.reset # NullTime)
        => (last.status = 403 /\ last.created = 0 /\ last.deleted = 0)

\* ------------------------------------------- session fields under a race
\* Interleaved refresh requests of the test user at sub-second resolution,
\* next to logouts
RaceNext ==
    \/ SubTick
    \/ Login("test@example.com", "p1")
    \/ \E tok \in PresentableRefresh : Logout(tok)
    \/ \E r \in Slots, tok \in PresentableRefresh : RotateLookup(r, tok)
    \/ \E r \in Slots : RotateVictim(r)
    \/ \E r \in Slots : RotateRevoke(r)
    \/ \E r \in Slots : RotateFound(r)

RaceSpec == Init /\ [][RaceNext]_vars

\* C20 (as claimed): in every committed state of the store, each row's
\* refresh_token is NULL exactly when its refresh_token_expires is NULL.
C20_SessionFieldsTogether ==
    \A i \in DOMAIN users :
        Session(users, i) = NullToken <=> Expires(users, i) = NullTime

\* ------------------------------------------------- stored expiry of a row
\* the stored expiry of row i is NULL or earlier than the clock
StoredExpiryPassed(db, i, t) == Expires(db, i) = NullTime \/ Expires(db, i) < t

\* the store with the expiry column of row i set to NULL, its token kept
WithoutExpiry(db, i) == [db EXCEPT ![i].refresh_token_expires = NullTime]

\* tok, presented to POST /auth/refresh against db, is refused with 401, no
\* tokens are handed out, and row i is left without token and expiry
RefusedAndCleared(db, tok, i, t) ==
    LET reply == refresh_token(db, tok, t)
    IN  /\ [reply EXCEPT !.db = db] = InvalidOrExpiredToken(db)
        /\ Session(reply.db, i) = NullToken
        /\ Expires(reply.db, i) = NullTime
        /\ \A j \in DOMAIN db \ {i} : reply.db[j] = db[j]

\* C21: a refresh with a token that decodes and is the stored value of a row
\* whose refresh_token_expires is NULL or earlier than the clock answers 401
\* InvalidOrExpiredToken, leaves that row's token and expiry NULL and hands
\* out no tokens.
C21_StoredExpiryRevokes ==
    /\ \A tok \in RefreshTokens(issued) :
        \A i \in get_by_refresh_token(users, tok) :
            jwt_decode(tok, REFRESH_SECRET_KEY, now).ok
            => /\ StoredExpiryPassed(users, i, now)
                    => RefusedAndCleared(users, tok, i, now)
               /\ RefusedAndCleared(WithoutExpiry(users, i), tok, i, now)
    /\ (last.op = "refresh" /\ ValidRefresh /\ last.stored /\ last.status # 200)
            => /\ last.status = 401
               /\ last.access = NullToken /\ last.refresh = NullToken
               /\ Session(users, last.subj) = NullToken
               /\ Expires(users, last.subj) = NullTime
               /\ writer[last.subj] = "expired"

\* C21 witness: a refresh with the stored token, unexpired by its own exp
\* claim, was refused and cleared the row
C21_Witness ==
    /\ last.op = "refresh" /\ last.status = 401
    /\ ValidRefresh /\ last.stored /\ last.changed
    /\ Session(users, last.subj) = NullToken

\* ------------------------------------------------------ two token classes
\* C22: a token made by create_access_token is never accepted by refresh or
\* logout, and a token made by create_refresh_token is never accepted by
\* get_current_user or the role guard; a refused token changes nothing.
C22_TokenClassesApart ==
    /\ \A tok \in AccessTokens(issued) :
            /\ rotate_refresh_token(users, tok, now) = Failure(users, "jwt")
            /\ logout_user(users, tok, now) = [ok |-> FALSE, uid |-> 0, db |-> users]
    /\ \A tok \in RefreshTokens(issued) :
            /\ get_current_user(users, tok, now).status = 401
            /\ require_role(users, tok, now, RoleEnum).status = 401
    /\ (last.op \in {"refresh", "logout"} /\ last.presented.key = SECRET_KEY)
            => /\ ~last.ran /\ ~last.changed
               /\ last.op = "refresh" => last.status = 401
    /\ (last.op = "me" /\ last.presented.key = REFRESH_SECRET_KEY)
            => (last.status = 401 /\ ~last.ran)

\* C22 witness: a logout with an unexpired access token of a user with a live
\* session left the session in place
C22_Witness ==
    /\ last.op = "logout" /\ ValidAccess /\ last.subjExists
    /\ ~last.ran
    /\ Session(users, last.subj) # NullToken

\* an unexpired refresh token of an existing user was refused by /auth/me
C22_RefreshAsAccessSeen ==
    /\ last.op = "me" /\ ValidRefresh /\ last.subjExists
    /\ last.status = 401

\* an unexpired access token of a user with a live session was refused by
\* refresh, and the session was not revoked
C22_AccessAsRefreshSeen ==
    /\ last.op = "refresh" /\ ValidAccess /\ last.subjExists
    /\ last.status = 401
    /\ Session(users, last.subj) # NullToken

\* ------------------------------------------- role changes between refreshes
\* the access token the seeded admin got from a login at time 0, before the
\* admin logged out again
AdminAccess == create_access_token(2, "admin", 0)

\* Refreshes of the test user's session while the admin changes roles
RotateRoleNext ==
    \/ Tick
    \/ Login("test@example.com", "p1")
    \/ \E tok \in PresentableRefresh : Refresh(tok)
    \/ \E user_id \in Ids, role \in RoleEnum : UpdateUserRole(AdminAccess, user_id, role)

RotateRoleSpec == Init /\ [][RotateRoleNext]_vars

\* C23: no refresh token carries a role claim, and a successful refresh answers
\* with the role stored for the user when the request arrives, in the response
\* and in the role claim of the new access token.
C23_RotateUsesStoredRole ==
    /\ \A tok \in RefreshTokens(issued) : tok.role = NoRole
    /\ (last.op = "refresh" /\ last.status = 200)
            => /\ last.role = last.dbRole
               /\ last.access.role = last.dbRole
               /\ last.refresh.role = NoRole

\* C23 witness: a refresh succeeded for a user whose role is no longer the one
\* an earlier access token of that user carries
C23_Witness ==
    /\ last.op = "refresh" /\ last.status = 200
    /\ \E tok \in AccessTokens(issued) : tok.sub = last.uid /\ tok.role # last.role

\* --------------------------------------------------- logout by subject id
\* C24: logout finds the row by the sub claim of the token, not by the token
\* value: any unexpired refresh token of this service whose subject exists,
\* stored or not, clears the session fields of its subject.
C24_LogoutBySubject ==
    /\ \A tok \in RefreshTokens(issued) :
            (jwt_decode(tok, REFRESH_SECRET_KEY, now).ok /\ tok.sub \in DOMAIN users)
            => logout_user(users, tok, now) =
                    [ok |-> TRUE, uid |-> tok.sub,
                     db |-> revoke_refresh_token(users, tok.sub)]
    /\ (last.op = "logout" /\ ValidRefresh /\ last.subjExists)
            => /\ last.ran /\ last.uid = last.subj
               /\ Session(users, last.subj) = NullToken
               /\ Expires(users, last.subj) = NullTime

\* C24 witness: a logout with a token that a later login had overwritten ended
\* the session of that later login
C24_Witness ==
    /\ last.op = "logout" /\ ValidRefresh /\ last.ran
    /\ ~last.stored
    /\ last.prev # NullToken /\ last.prevBy = "login"
    /\ Session(users, last.subj) = NullToken

\* the same with a token that a refresh had rotated away
C24_RotatedAwaySeen ==
    /\ last.op = "logout" /\ ValidRefresh /\ last.ran
    /\ ~last.stored
    /\ last.prev # NullToken /\ last.prevBy = "rotated"
    /\ Session(users, last.subj) = NullToken

\* ----------------------------------------------- use of a superseded token
\* no issued refresh token of user i would be accepted by POST /auth/refresh
NoneRotates(i) ==
    \A tok \in RefreshTokens(issued) : tok.sub = i => ~WouldRotate(tok)

C26_NoRefreshAfterLogout ==
    \A i \in DOMAIN users :
        writer[i] = "logout" => (Session(users, i) = NullToken /\ NoneRotates(i))

\* ------------------------------------------------- interleaved registers
\* str(e) of the IntegrityError the INSERT raises when the unique constraint
\* on users.email rejects the row
IntegrityErrorText == "IntegrityError: duplicate key value violates unique constraint"

\* register_user up to the first await: look the email up
RegisterLookup(r, email) ==
    /\ reqs[r].pc \in {"idle", "done"}
    /\ LET fresh == [IdleReq EXCEPT !.row = NewUser(email, "p1")]
       IN  reqs' = [reqs EXCEPT ![r] =
                IF get_by_email(users, email) # {}
                THEN [fresh EXCEPT !.pc = "done", !.status = 400,
                                   !.detail = RegisterDetail]
                ELSE [fresh EXCEPT !.pc = "create"]]
    /\ UNCHANGED <<now, users, nextId, issued, last, writer, rot, training>>

\* create_user: INSERT and commit. The unique constraint on email rejects a
\* second row; the handler turns the exception into 400 with detail str(e).
\* The rejected INSERT has drawn a value of the serial key all the same.
RegisterCreate(r) ==
    /\ reqs[r].pc = "create"
    /\ IF get_by_email(users, reqs[r].row.email) # {}
       THEN /\ nextId <= MaxIds + 1
            /\ reqs' = [reqs EXCEPT ![r] =
                    [reqs[r] EXCEPT !.pc = "done", !.status = 400,
                                    !.detail = IntegrityErrorText]]
            /\ UNCHANGED users
       ELSE /\ nextId <= MaxIds
            /\ users' = create_user(users, nextId, reqs[r].row)
            /\ reqs' = [reqs EXCEPT ![r] = [reqs[r] EXCEPT !.pc = "issue", !.uid = nextId]]
    /\ nextId' = nextId + 1
    /\ UNCHANGED <<now, issued, last, writer, rot, training>>

\* issue_tokens for the new row, then the 200 response
RegisterIssue(r) ==
    /\ reqs[r].pc = "issue"
    /\ LET id == reqs[r].uid
           tokens == issue_tokens(users, id, reqs[r].row, now)
       IN  /\ tokens.refresh \in issued \/ Cardinality(RefreshTokens(issued)) < MaxIssued
           /\ tokens.access \in issued \/ Cardinality(AccessTokens(issued)) < MaxIssued
           /\ users' = tokens.db
           /\ issued' = issued \cup {tokens.access, tokens.refresh}
           /\ reqs' = [reqs EXCEPT ![r] = Done(r, 200, tokens.refresh)]
    /\ UNCHANGED <<now, nextId, last, writer, rot, training>>

\* Register requests whose store reads and writes interleave
RegisterRaceNext ==
    \/ Tick
    \/ \E email \in Emails : Login(email, "p1")
    \/ \E r \in Slots, email \in Emails : RegisterLookup(r, email)
    \/ \E r \in Slots : RegisterCreate(r)
    \/ \E r \in Slots : RegisterIssue(r)

RegisterRaceSpec == Init /\ [][RegisterRaceNext]_vars

\* C27 (as claimed): of two registers with the same email that run at the same
\* time, at most one creates a row and gets tokens, and the other is answered
\* with the DuplicateEmail response, 400 with its fixed detail.
C27_ConcurrentRegister ==
    /\ \A email \in Emails : Cardinality(get_by_email(users, email)) <= 1
    /\ \A r1, r2 \in Slots :
            (r1 # r2 /\ reqs[r1].row.email = reqs[r2].row.email
                /\ reqs[r1].row.email # "")
            => ~(reqs[r1].status = 200 /\ reqs[r2].status = 200)
    /\ \A r \in Slots :
            (reqs[r].pc = "done" /\ reqs[r].status # 200)
            => (reqs[r].status = 400 /\ reqs[r].detail = RegisterDetail)

\* the part of C27 that the code keeps: one row per email, one winner, and
\* the loser answered with status 400
C27_OneRowOneWinner ==
    /\ \A email \in Emails : Cardinality(get_by_email(users, email)) <= 1
    /\ \A r1, r2 \in Slots :
            (r1 # r2 /\ reqs[r1].row.email = reqs[r2].row.email
                /\ reqs[r1].row.email # "")
            => ~(reqs[r1].status = 200 /\ reqs[r2].status = 200)
    /\ \A r \in Slots : (reqs[r].pc = "done" /\ reqs[r].status # 200) => reqs[r].status = 400

\* --------------------------------------------- isolation between users
\* the session fields of row q differ between the stores db1 and db2
SessionChanged(db1, db2, q) ==
    \/ Session(db1, q) # Session(db2, q)
    \/ Expires(db1, q) # Expires(db2, q)

\* the refresh token the seeded admin got from a login at time 0
AdminRefresh == create_refresh_token(2, 0)

\* the store after startup_event and that login of the admin
IsolationInit ==
    /\ now = 0
    /\ users = save_refresh_token(SeedUsers, 2, AdminRefresh, refresh_expiry(0))
    /\ nextId = 3
    /\ issued = {}
    /\ last = [op |-> "none", status |-> 0, uid |-> 0, access |-> NullToken,
               refresh |-> NullToken, role |-> NoRole, ran |-> FALSE,
               presented |-> NullToken, fresh |-> FALSE, subj |-> 0,
               subjExists |-> FALSE,
               dbRole |-> NoRole, prev |-> NullToken, prevBy |-> "none",
               stored |-> FALSE, successor |-> NullToken, again |-> FALSE,
               changed |-> FALSE]
    /\ writer = [i \in Ids |-> IF i = 2 THEN "login" ELSE "none"]
    /\ rot = [i \in Ids |-> NoRotation]
    /\ reqs = [r \in Slots |-> IdleReq]
    /\ training = NoTraining

\* The session operations of the other users, and of the admin, while the
\* admin's session is live
IsolationNext ==
    \/ Tick
    \/ \E email \in Emails : Register(email, "p1")
    \/ \E email \in Emails, password \in Passwords : Login(email, password)
    \/ \E tok \in PresentableRefresh \cup {AdminRefresh} : Refresh(tok)
    \/ \E tok \in PresentableRefresh \cup {AdminRefresh} : Logout(tok)

IsolationSpec == IsolationInit /\ [][IsolationNext]_vars

\* C28: a register, login, refresh or logout changes the stored refresh token
\* and expiry of no row but that of its subject: the user registered or
\* logged in, or the subject of the presented token. Reuse detection included.
C28_SessionIsolation ==
    [][\A q \in Ids :
            SessionChanged(users, users', q) => (q = last'.uid \/ q = last'.subj)]_vars

\* every stored token names the row that stores it
C28_StoredTokenNamesRow ==
    \A i \in DOMAIN users : Session(users, i) # NullToken => Session(users, i).sub = i

\* C28 witness: reuse detection has just revoked the session of the token's
\* subject while another user has a live session
C28_Witness ==
    /\ last.op = "refresh" /\ last.status = 401 /\ last.changed
    /\ writer[last.subj] = "reuse"
    /\ \E q \in DOMAIN users : q # last.subj /\ Session(users, q) # NullToken

\* ------------------------------------------- stored expiry and exp claim
\* the first tick of the clock second s
StartOf(s) == s * TicksPerSecond

\* every stored session has a stored expiry not earlier than the exp claim
\* of its token
ExpiryCoversExp ==
    \A i \in DOMAIN users :
        Session(users, i) # NullToken
        => (Expires(users, i) # NullTime
            /\ Expires(users, i) >= StartOf(Session(users, i).exp))

\* C29 (as claimed): the stored expiry of a session is never earlier than the
\* exp claim of its token, and so a refresh whose token passes jwt.decode and
\* is found by value is never refused by the stored-expiry check.
C29_NeverRefusedByStoredExpiry ==
    /\ ExpiryCoversExp
    /\ (last.op = "refresh" /\ ValidRefresh /\ last.stored) => last.status = 200

\* C29 (amended): the stored expiry of a session is never earlier than the
\* exp claim of its token; a refresh whose token passes jwt.decode and is
\* found by value is refused by the stored-expiry check only during the clock
\* second named by the exp claim, which jwt.decode still accepts whole while
\* the stored expiry, kept to the sub-second, has passed.
C29_RefusedOnlyInLastSecond ==
    /\ ExpiryCoversExp
    /\ \A tok \in RefreshTokens(issued) :
            Cause(tok) = "expired" => Sec(now) = tok.exp
    /\ (last.op = "refresh" /\ ValidRefresh /\ last.stored /\ last.status # 200)
            => writer[last.subj] = "expired"

\* C29 witness: such a refusal has just happened, in the clock second of the
\* exp claim, where jwt.decode still accepts the token
C29_Witness ==
    /\ last.op = "refresh" /\ ValidRefresh /\ last.stored
    /\ last.status = 401
    /\ writer[last.subj] = "expired"
    /\ jwt_decode(last.presented, REFRESH_SECRET_KEY, now).ok
    /\ now > StartOf(last.presented.exp)

\* ------------------------------------------- interleaved admin requests
\* The require_admin dependency and the checks that precede the first store
\* access of the handler body: the caller's row is loaded and its role read
\* here; the target id is kept in uid, the requested role in row.role.
AdminCheck(r, tok, user_id, role, write) ==
    /\ reqs[r].pc \in {"idle", "done"}
    /\ LET guard == require_admin(users, tok, now)
           fresh == [IdleReq EXCEPT !.tok = tok, !.uid = user_id, !.row.role = role]
       IN  reqs' = [reqs EXCEPT ![r] =
                IF guard.status # 200 THEN [fresh EXCEPT !.pc = "done", !.status = guard.status]
                ELSE IF user_id = guard.uid THEN [fresh EXCEPT !.pc = "done", !.status = 400]
                ELSE IF write = "role" /\ role \notin RoleEnum
                     THEN [fresh EXCEPT !.pc = "done", !.status = 400]
                ELSE [fresh EXCEPT !.pc = write]]
    /\ UNCHANGED <<now, users, nextId, issued, last, writer, rot, training>>

\* update_user_role from its SELECT on: load the target, set the role, commit
AdminWriteRole(r) ==
    /\ reqs[r].pc = "role"
    /\ LET user_id == reqs[r].uid
       IN  IF user_id \notin DOMAIN users
           THEN /\ reqs' = [reqs EXCEPT ![r] = Done(r, 404, NullToken)]
                /\ UNCHANGED users
           ELSE /\ users' = [users EXCEPT ![user_id].role = reqs[r].row.role]
                /\ reqs' = [reqs EXCEPT ![r] = Done(r, 200, NullToken)]
    /\ UNCHANGED <<now, nextId, issued, last, writer, rot, training>>

\* delete_user from its SELECT on: load the target, delete it, commit
AdminDelete(r) ==
    /\ reqs[r].pc = "delete"
    /\ LET user_id == reqs[r].uid
       IN  IF user_id \notin DOMAIN users
           THEN /\ reqs' = [reqs EXCEPT ![r] = Done(r, 404, NullToken)]
                /\ UNCHANGED users
           ELSE /\ users' = [i \in DOMAIN users \ {user_id} |-> users[i]]
                /\ reqs' = [reqs EXCEPT ![r] = Done(r, 200, NullToken)]
    /\ UNCHANGED <<now, nextId, issued, last, writer, rot, training>>

\* Admin requests whose guard and write interleave, within one clock second;
\* the test user holds the token of its login, the seeded admin the one of its
\* login at time 0
AdminRaceNext ==
    \/ Login("test@example.com", "p1")
    \/ \E r \in Slots, tok \in PresentableAccess \cup {AdminAccess},
          user_id \in DOMAIN SeedUsers, role \in {"user", "admin"} :
            AdminCheck(r, tok, user_id, role, "role")
    \/ \E r \in Slots, tok \in PresentableAccess \cup {AdminAccess},
          user_id \in DOMAIN SeedUsers :
            AdminCheck(r, tok, user_id, NoRole, "delete")
    \/ \E r \in Slots : AdminWriteRole(r)
    \/ \E r \in Slots : AdminDelete(r)

AdminRaceSpec == Init /\ [][AdminRaceNext]_vars

\* a request of an admin that targets the admin's own id is answered 400 and
\* changes nothing
SelfTargetRefused ==
    \A tok \in PresentableAccess \cup {AdminAccess} :
        LET guard == require_admin(users, tok, now)
        IN  guard.status = 200 =>
                /\ \A role \in RoleEnum :
                        LET reply == update_user_role(users, tok, guard.uid, role, now)
                        IN  reply.status = 400 /\ reply.db = users
                /\ LET reply == delete_user(users, tok, guard.uid, now)
                   IN  reply.status = 400 /\ reply.db = users

\* C30 (as claimed): an admin's role update or delete that targets the
\* admin's own id is refused and changes nothing, and whatever the
\* interleaving of the admins' role updates and deletes, guard and write being
\* separate steps, a user with role admin always exists.
C30_AdminNonLockout ==
    /\ SelfTargetRefused
    /\ \A r \in Slots :
            (reqs[r].pc = "done" /\ reqs[r].tok.sub = reqs[r].uid) => reqs[r].status # 200
    /\ \E i \in DOMAIN users : users[i].role = "admin"

\* the part of C30 that the code keeps: the refusal of self-targeting requests
C30_SelfTargetRefused ==
    /\ SelfTargetRefused
    /\ \A r \in Slots :
            (reqs[r].pc = "done" /\ reqs[r].tok.sub = reqs[r].uid) => reqs[r].status # 200

====
